---- MODULE Spec2Model ----
(***************************************************************************)
(* AccessBot backend: the provider dispatcher (services/ai), the chat      *)
(* turn with its conversation-continuity heuristic (routers/chat.py), the  *)
(* plugin context aggregator (plugins/manager.py) and the suggestion       *)
(* cooldown cache (routers/suggestions.py).                                *)
(*                                                                         *)
(* Time is counted in minutes.  A request handler runs without             *)
(* interruption except where it awaits the provider's HTTP response, so a  *)
(* handler is one action up to that await and one action after it.         *)
(* Database timestamps have microsecond resolution and grow with every     *)
(* commit; the model keeps the minute and, to order two commits of the     *)
(* same minute, the id of the row the commit wrote.                        *)
(***************************************************************************)
EXTENDS Integers, Sequences, FiniteSets, TLC

\* ------------------------------------------------------------------ bounds
MaxTime == 25
TickMinutes == 5
MaxConvs == 2
MaxMsgs == 4
MaxReq == 2
MaxPlugins == 3
MaxItems == 4
MaxList == 3
MaxPath == 5
MaxCalls == 3
MaxAccounts == 4
MaxDays == 2
MaxCheckins == 2

\* --------------------------------------------------------------- constants
ReuseWindowMinutes == 20
ReadTimeoutMinutes == 5
COOLDOWN_MINUTES == 10

Users == {"u1", "u2"}

VARIABLES
    clock,            \* wall clock / database now(), minutes
    settingsTable,    \* rows of user_ai_settings, in primary-key order
    conversations,    \* rows of conversations; the id is the index
    messages,         \* rows of messages; the id is the index
    inflight,         \* send_message requests suspended on the provider call
    lastTurn,         \* how the latest finished send_message ended, until its
                      \* user sends again
    lastSel,          \* the latest conversation selection of a request without id
    userPlugins,      \* rows of user_plugins: user, plugin -> "none"/"on"/"off"
    hookBehaviour,    \* what each plugin's get_context does when called now
    ctxCall,          \* the collect_ai_context call just made, until the rows
                      \* or the hooks change
    suggestionCache,  \* _suggestion_cache: user -> entry or none
    lastSuggest,      \* the latest get_suggestions call, as observed
    parseCall,        \* the _parse_suggestions call under way, with its result
    adapterCall,      \* the adapter call under way: its request, then its result
    resolveCall,      \* the latest get_user_settings call, as observed
    userTable,        \* rows of users, with the id the next row gets
    lastAuth,         \* the latest register / user-management call, as observed
    checkinTable,     \* check-in rows of user_analytics, with the next id
    upstreamLog,      \* per user, the start times of the get_suggestions
                      \* requests that posted to the provider
    lastPrompt        \* the message list the latest send_message built

vars == <<clock, settingsTable, conversations, messages, inflight, lastTurn,
          lastSel, userPlugins, hookBehaviour, ctxCall, suggestionCache,
          lastSuggest, parseCall, adapterCall, resolveCall, userTable,
          lastAuth, checkinTable, upstreamLog, lastPrompt>>

chatVars == <<clock, settingsTable, conversations, messages, inflight,
              lastTurn, lastSel>>
pluginVars == <<userPlugins, hookBehaviour, ctxCall>>
suggestVars == <<suggestionCache, lastSuggest>>
callVars == <<parseCall, adapterCall, resolveCall>>
recordVars == <<userTable, lastAuth, checkinTable>>
traceVars == <<upstreamLog, lastPrompt>>

\* ================================================================ settings
ApiFormats == {"openai", "anthropic", "ollama", "custom", "gemini"}
KnownFormats == {"openai", "anthropic", "ollama", "custom"}

\* extra_params.request_template as the custom adapter meets it: the key is
\* absent, holds a JSON object, or holds any other JSON value.
TemplateKinds == {"absent", "object", "not_object"}

\* The request bodies update_settings is called with.
SettingsInputs ==
    { [provider_name |-> n, api_format |-> f, api_endpoint |-> e,
       request_template |-> t] :
        n \in {"LocalAI"}, f \in ApiFormats \ {"custom"},
        e \in {"", "http://llm/v1"}, t \in {"absent"} }
    \cup
    { [provider_name |-> "LocalAI", api_format |-> "custom",
       api_endpoint |-> "http://llm/v1", request_template |-> t] :
        t \in TemplateKinds }
    \cup
    { [provider_name |-> "unconfigured", api_format |-> "openai",
       api_endpoint |-> "http://llm/v1", request_template |-> "absent"] }

\* The dict returned when the table is empty; temperature is written as its
\* decimal text, {} as the empty function, and request_template is what
\* the empty extra_params holds under that key.
DefaultSettings ==
    [provider_name |-> "unconfigured", api_format |-> "openai",
     api_endpoint |-> "", api_key |-> "", model_name |-> "",
     temperature |-> "0.7", max_tokens |-> 1000, auth_type |-> "none",
     custom_headers |-> <<>>, extra_params |-> <<>>,
     request_template |-> "absent"]

get_user_settings_DefaultEndpoint(table) ==
    IF table = <<>>
    THEN [DefaultSettings EXCEPT !.provider_name = "default",
                                 !.api_endpoint = "http://localhost:1234/v1"]
    ELSE [provider_name |-> table[1].provider_name,
          api_format |-> table[1].api_format,
          api_endpoint |-> table[1].api_endpoint,
          request_template |-> table[1].request_template]

get_user_settings(table) ==
    IF table = <<>>
    THEN DefaultSettings
    ELSE [provider_name |-> table[1].provider_name,
          api_format |-> table[1].api_format,
          api_endpoint |-> table[1].api_endpoint,
          request_template |-> table[1].request_template]

\* =========================================================== error values
\* An exception is its kind and the words of str(e) that matter to the
\* caller's substring test.
NoError == [kind |-> "none", text |-> <<>>]
ConfigError == [kind |-> "config", text |-> <<"LLM not configured">>]
EndpointError == [kind |-> "config", text |-> <<"API endpoint not configured">>]
UnsupportedError == [kind |-> "config", text |-> <<"Unsupported API format">>]
TemplateError == [kind |-> "template", text |-> <<"has no attribute", "copy">>]
ReadTimeoutError ==
    [kind |-> "read_timeout", text |-> <<"The LLM took", "too long to respond">>]

\* What the provider's answer to the one POST can be.  A non-2xx status
\* raises httpx.HTTPStatusError, whose text quotes the status line
\* ("Server error '504 Gateway Timeout' for url ..."); a transport failure
\* other than a read timeout raises with the transport's text.
UpstreamOutcomes ==
    { [kind |-> "ok", text |-> <<>>],
      ReadTimeoutError,
      [kind |-> "status", text |-> <<"500", "Internal Server Error">>],
      [kind |-> "status", text |-> <<"504", "Gateway", "Timeout">>],
      [kind |-> "network", text |-> <<"All connection attempts failed">>],
      [kind |-> "malformed", text |-> <<"KeyError">>] }

Lower(word) == IF word = "Timeout" THEN "timeout" ELSE word

TimeoutTokens == {"timeout", "timed out", "too long to respond"}

timeout_like_CaseSensitive(err) ==
    \E i \in DOMAIN err.text : err.text[i] \in TimeoutTokens

timeout_like_WordTimeoutOnly(err) ==
    \E i \in DOMAIN err.text : Lower(err.text[i]) = "timeout"

timeout_like(err) ==
    \E i \in DOMAIN err.text : Lower(err.text[i]) \in TimeoutTokens


\* ============================================================== dispatcher
\* The part of a chat call that runs before the handler is suspended: either
\* it raises at once, having posted nothing, or it issues the POST.
Raised(err) == [raised |-> TRUE, error |-> err, posts |-> 0, adapter |-> "none"]
Posted(name) == [raised |-> FALSE, error |-> NoError, posts |-> 1, adapter |-> name]

\* _custom_format builds its payload with request_template.copy() and
\* payload["messages"] = messages, which only a JSON object supports.
custom_payload(settings) ==
    IF settings.request_template \in {"absent", "object"}
    THEN Posted("custom")
    ELSE Raised(TemplateError)

GenericLLMProvider_chat_DefaultOpenAI(settings) ==
    IF settings.api_endpoint = "" THEN Raised(EndpointError)
    ELSE IF settings.api_format = "anthropic" THEN Posted("anthropic")
    ELSE IF settings.api_format = "ollama" THEN Posted("ollama")
    ELSE IF settings.api_format = "custom" THEN custom_payload(settings)
    ELSE Posted("openai")

GenericLLMProvider_chat(settings) ==
    IF settings.api_endpoint = "" THEN Raised(EndpointError)
    ELSE IF settings.api_format = "openai" THEN Posted("openai")
    ELSE IF settings.api_format = "anthropic" THEN Posted("anthropic")
    ELSE IF settings.api_format = "ollama" THEN Posted("ollama")
    ELSE IF settings.api_format = "custom" THEN custom_payload(settings)
    ELSE Raised(UnsupportedError)

AIRouter_chat(table) ==
    LET settings == get_user_settings(table)
    IN  IF settings.provider_name = "unconfigured" \/ settings.api_endpoint = ""
        THEN Raised(ConfigError)
        ELSE GenericLLMProvider_chat(settings)

\* The part of an adapter that runs once the POST is answered: it returns
\* the text or raises, and posts nothing more.
adapter_response_RetryOnError(call, outcome) ==
    [raised |-> outcome.kind # "ok", error |-> outcome,
     posts |-> IF outcome.kind # "ok" THEN call.posts + 1 ELSE call.posts,
     adapter |-> call.adapter]

adapter_response(call, outcome) ==
    [raised |-> outcome.kind # "ok", error |-> outcome,
     posts |-> call.posts, adapter |-> call.adapter]

\* ================================================================= plugins
\* The plugins in the order main.py registers them; the model keeps the
\* first MaxPlugins of them.
AllRegistered ==
    <<"daily_checkin", "mood_tracker", "recharge", "crisis_support",
      "kanban_board", "task_breakdown">>
Registry == SubSeq(AllRegistered, 1, MaxPlugins)
Plugins == {Registry[i] : i \in DOMAIN Registry}

\* What one get_context hook does when called: it raises, returns None,
\* returns "" or returns its text.
HookOutcomes == {"raise", "none", "empty", "text"}
HookChoices == [Plugins -> HookOutcomes]
QuietHooks == [p \in Plugins |-> "none"]
NoCall == [user |-> "none"]

\* A text is a sequence of tokens; the text of a plugin is one token, its name.
Separator == "\n\n"
ContextText(p) == <<p>>

\* is_enabled: the user's row decides, and a user without a row has the
\* plugin enabled.
is_enabled_DefaultOff(p, u) == userPlugins[u][p] = "on"

is_enabled(p, u) == IF userPlugins[u][p] = "none" THEN TRUE ELSE userPlugins[u][p] = "on"

\* set_enabled: the row is updated, or created when the user has none.
set_enabled_EveryUser(rows, p, u, enabled) ==
    [v \in DOMAIN rows |-> [rows[v] EXCEPT ![p] = IF enabled THEN "on" ELSE "off"]]

set_enabled(rows, p, u, enabled) ==
    [rows EXCEPT ![u][p] = IF enabled THEN "on" ELSE "off"]

\* "\n\n".join(parts)
RECURSIVE Join(_)
Join(parts) ==
    IF parts = <<>> THEN <<>>
    ELSE IF Len(parts) = 1 THEN parts[1]
    ELSE parts[1] \o <<Separator>> \o Join(Tail(parts))

ContextResult(raised, parts, invoked, swallowed) ==
    [raised |-> raised, value |-> Join(parts), invoked |-> invoked,
     swallowed |-> swallowed]

RECURSIVE collect_loop_NoTry(_, _, _, _, _, _)
collect_loop_NoTry(i, u, hooks, parts, invoked, swallowed) ==
    IF i > Len(Registry)
    THEN ContextResult(FALSE, parts, invoked, swallowed)
    ELSE LET p == Registry[i]
         IN  IF ~is_enabled(p, u)
             THEN collect_loop_NoTry(i + 1, u, hooks, parts, invoked, swallowed)
             ELSE IF hooks[p] = "raise"
             THEN ContextResult(TRUE, <<>>, Append(invoked, p), swallowed)
             ELSE IF hooks[p] = "text"
             THEN collect_loop_NoTry(i + 1, u, hooks, Append(parts, ContextText(p)),
                                     Append(invoked, p), swallowed)
             ELSE collect_loop_NoTry(i + 1, u, hooks, parts, Append(invoked, p),
                                     swallowed)

collect_ai_context_NoTry(u, hooks) ==
    collect_loop_NoTry(1, u, hooks, <<>>, <<>>, <<>>)

\* The loop of collect_ai_context from registry position i on: parts are the
\* contributions kept so far, invoked the hooks called so far, swallowed the
\* plugins whose exception the except clause dropped.
RECURSIVE collect_loop(_, _, _, _, _, _)
collect_loop(i, u, hooks, parts, invoked, swallowed) ==
    IF i > Len(Registry)
    THEN ContextResult(FALSE, parts, invoked, swallowed)
    ELSE LET p == Registry[i]
         IN  IF ~is_enabled(p, u)
             THEN collect_loop(i + 1, u, hooks, parts, invoked, swallowed)
             ELSE IF hooks[p] = "raise"
             THEN collect_loop(i + 1, u, hooks, parts, Append(invoked, p),
                               Append(swallowed, p))
             ELSE IF hooks[p] = "text"
             THEN collect_loop(i + 1, u, hooks, Append(parts, ContextText(p)),
                               Append(invoked, p), swallowed)
             ELSE collect_loop(i + 1, u, hooks, parts, Append(invoked, p), swallowed)

collect_ai_context(u, hooks) == collect_loop(1, u, hooks, <<>>, <<>>, <<>>)

\* toggle_plugin for a registered plugin (any other name ends in 404 and
\* changes nothing): data is the request's "enabled" field, "true" or
\* "false", or "absent".
toggle_plugin(p, u, data) ==
    /\ p \in Plugins
    /\ LET currently_enabled == is_enabled(p, u)
           new_state == IF data = "true" THEN TRUE
                        ELSE IF data = "false" THEN FALSE
                        ELSE ~currently_enabled
       IN  userPlugins' = set_enabled(userPlugins, p, u, new_state)
    /\ ctxCall' = NoCall
    /\ UNCHANGED <<hookBehaviour, chatVars, suggestVars, callVars,
                   recordVars, traceVars>>

\* The data a hook reads changes, and with it what the hook does.
HookChange(p, outcome) ==
    /\ hookBehaviour[p] # outcome
    /\ hookBehaviour' = [hookBehaviour EXCEPT ![p] = outcome]
    /\ ctxCall' = NoCall
    /\ UNCHANGED <<userPlugins, chatVars, suggestVars, callVars,
                   recordVars, traceVars>>

\* One call of collect_ai_context.
CollectAiContext(u) ==
    /\ ctxCall' = [user |-> u, result |-> collect_ai_context(u, hookBehaviour)]
    /\ UNCHANGED <<userPlugins, hookBehaviour, chatVars, suggestVars, callVars,
                   recordVars, traceVars>>

\* ========================================================= conversations
OwnConversations_AnyOwner(u) == DOMAIN conversations

OwnConversations(u) == {c \in DOMAIN conversations : conversations[c].user_id = u}

\* ORDER BY updated_at: c was updated no earlier than d.
UpdatedNotBefore(c, d) ==
    \/ conversations[c].updated_at > conversations[d].updated_at
    \/ /\ conversations[c].updated_at = conversations[d].updated_at
       /\ conversations[c].touched >= conversations[d].touched

\* .order_by(Conversation.updated_at.desc()).first(); 0 stands for None.
MostRecentConversation_AnyOwner(u) ==
    IF DOMAIN conversations = {} THEN 0
    ELSE CHOOSE c \in DOMAIN conversations :
            \A d \in DOMAIN conversations : UpdatedNotBefore(c, d)

MostRecentConversation(u) ==
    IF OwnConversations(u) = {} THEN 0
    ELSE CHOOSE c \in OwnConversations(u) :
            \A d \in OwnConversations(u) : UpdatedNotBefore(c, d)

MessagesOf(c) == {m \in DOMAIN messages : messages[m].conversation_id = c}

\* .order_by(Message.created_at.desc()).first(); 0 stands for None.
LastMessage(c) ==
    IF MessagesOf(c) = {} THEN 0
    ELSE CHOOSE m \in MessagesOf(c) :
            \A k \in MessagesOf(c) :
                \/ messages[m].created_at > messages[k].created_at
                \/ messages[m].created_at = messages[k].created_at /\ m >= k

should_reuse_IgnoreRole(u, now) ==
    LET c == MostRecentConversation(u)
    IN  /\ c # 0
        /\ LastMessage(c) # 0
        /\ now - conversations[c].updated_at <= ReuseWindowMinutes

should_reuse_StrictWindow(u, now) ==
    LET c == MostRecentConversation(u)
    IN  /\ c # 0
        /\ LastMessage(c) # 0
        /\ messages[LastMessage(c)].role = "user"
        /\ now - conversations[c].updated_at < ReuseWindowMinutes

should_reuse(u, now) ==
    LET c == MostRecentConversation(u)
    IN  /\ c # 0
        /\ LastMessage(c) # 0
        /\ messages[LastMessage(c)].role = "user"
        /\ now - conversations[c].updated_at <= ReuseWindowMinutes

\* db.add(Message(...)); db.commit(): the row gets the next id and now().
AppendMessage(msgs, c, role, now) ==
    Append(msgs, [conversation_id |-> c, role |-> role, created_at |-> now])

touch_conversation_Skip(convs, c, now, m) == convs

\* conv.updated_at = func.now(); db.commit(), right after message m was stored.
touch_conversation(convs, c, now, m) ==
    [convs EXCEPT ![c].updated_at = now, ![c].touched = m]

\* ============================================================ send_message
Slots == 1..MaxReq
Free == [state |-> "free"]
NoReply == [array |-> FALSE, json |-> FALSE, items |-> <<>>]
Busy == {r \in Slots : inflight[r].state = "awaiting"}
BusyOf(u) == {r \in Busy : inflight[r].user = u}

NoTurn == [kind |-> "none", user |-> "none"]
NoSel == [msg |-> 0, user |-> "none"]

\* How a finished send_message is remembered: the conversation it wrote to,
\* how the chat call ended, the settings table the call read, and whether another
\* request of the same user overlapped it.
TurnRecord(u, kind, conv, res, cfg, overlapped) ==
    [kind |-> kind, user |-> u, conv |-> conv, error |-> res.error,
     posts |-> res.posts, adapter |-> res.adapter, cfg |-> cfg,
     overlapped |-> overlapped]

\* The end of send_message once the chat call has returned or raised: the
\* reply is stored, or the fallback is stored when the error text looks like
\* a timeout, or the handler raises 502; every stored message is followed by
\* _touch_conversation.
finish_turn_StoresErrorReply(res, conv, msgs, convs, now) ==
    IF ~res.raised \/ timeout_like(res.error)
    THEN LET msgs1 == AppendMessage(msgs, conv, "assistant", now)
         IN  [kind |-> IF res.raised THEN "fallback" ELSE "reply", messages |-> msgs1,
              conversations |-> touch_conversation(convs, conv, now, Len(msgs1))]
    ELSE LET msgs1 == AppendMessage(msgs, conv, "assistant", now)
         IN  [kind |-> "error502", messages |-> msgs1,
              conversations |-> touch_conversation(convs, conv, now, Len(msgs1))]

finish_turn(res, conv, msgs, convs, now) ==
    IF ~res.raised
    THEN LET msgs1 == AppendMessage(msgs, conv, "assistant", now)
         IN  [kind |-> "reply", messages |-> msgs1,
              conversations |-> touch_conversation(convs, conv, now, Len(msgs1))]
    ELSE IF timeout_like(res.error)
    THEN LET msgs1 == AppendMessage(msgs, conv, "assistant", now)
         IN  [kind |-> "fallback", messages |-> msgs1,
              conversations |-> touch_conversation(convs, conv, now, Len(msgs1))]
    ELSE [kind |-> "error502", messages |-> msgs, conversations |-> convs]

MarkOverlapped(u) ==
    [r \in Slots |->
        IF r \in BusyOf(u) THEN [inflight[r] EXCEPT !.overlapped = TRUE]
        ELSE inflight[r]]

\* The roles of the conversation's stored messages, oldest first.
history(msgs, conv) ==
    LET own == SelectSeq(msgs, LAMBDA m : m.conversation_id = conv)
    IN  [i \in DOMAIN own |-> own[i].role]

\* ai_messages: the history, behind a system message when the plugin
\* context is not empty.
build_ai_messages_AlwaysSystem(roles, context) == <<"system">> \o roles

build_ai_messages(roles, context) ==
    IF context # <<>> THEN <<"system">> \o roles ELSE roles

\* send_message up to the await of the provider's response.  cid = 0 is a
\* request without conversation_id.
SendMessage(u, cid) ==
    /\ Len(messages) + Cardinality(Busy) + 2 <= MaxMsgs
    /\ IF cid # 0 /\ cid \notin OwnConversations(u)
       THEN /\ lastTurn' = [kind |-> "notfound", user |-> u]
            /\ inflight' = MarkOverlapped(u)
            /\ UNCHANGED <<clock, settingsTable, conversations, messages, lastSel,
                           lastPrompt>>
       ELSE LET reuse == cid = 0 /\ should_reuse(u, clock)
                create == cid = 0 /\ ~reuse
                conv == IF cid # 0 THEN cid
                        ELSE IF reuse THEN MostRecentConversation(u)
                        ELSE Len(conversations) + 1
                convs1 == IF create
                          THEN Append(conversations,
                                      [user_id |-> u, updated_at |-> clock, touched |-> 0])
                          ELSE conversations
                msgs1 == AppendMessage(messages, conv, "user", clock)
                convs2 == touch_conversation(convs1, conv, clock, Len(msgs1))
                ctx == collect_ai_context(u, hookBehaviour)
                call == AIRouter_chat(settingsTable)
                overlapped == BusyOf(u) # {}
                done == finish_turn(call, conv, msgs1, convs2, clock)
                slot == CHOOSE r \in Slots : r \notin Busy /\ \A q \in Slots \ Busy : r <= q
            IN  /\ create => Len(conversations) < MaxConvs
                /\ lastSel' = IF cid = 0
                              THEN [msg |-> Len(msgs1), user |-> u, reused |-> reuse,
                                    conv |-> conv]
                              ELSE lastSel
                /\ IF ctx.raised
                   THEN /\ messages' = msgs1
                        /\ conversations' = convs2
                        /\ inflight' = MarkOverlapped(u)
                        /\ lastTurn' = [kind |-> "error500", user |-> u]
                   ELSE IF call.raised
                   THEN /\ messages' = done.messages
                        /\ conversations' = done.conversations
                        /\ inflight' = MarkOverlapped(u)
                        /\ lastTurn' =
                              TurnRecord(u, done.kind, conv, call, settingsTable, overlapped)
                   ELSE /\ Busy # Slots
                        /\ messages' = msgs1
                        /\ conversations' = convs2
                        /\ inflight' = [MarkOverlapped(u) EXCEPT ![slot] =
                              [state |-> "awaiting", handler |-> "send_message",
                               user |-> u, conv |-> conv,
                               msg |-> Len(msgs1), call |-> call, cfg |-> settingsTable,
                               overlapped |-> overlapped, at |-> clock,
                               reply |-> NoReply]]
                        /\ lastTurn' = IF lastTurn.user = u THEN NoTurn ELSE lastTurn
                /\ lastPrompt' =
                      IF ctx.raised THEN lastPrompt
                      ELSE [user |-> u, conv |-> conv, context |-> ctx.value,
                            roles |-> build_ai_messages(history(msgs1, conv), ctx.value)]
                /\ UNCHANGED <<clock, settingsTable>>
    /\ UNCHANGED <<pluginVars, suggestVars, callVars, recordVars, upstreamLog>>

UpdateSettings_RowPerUser(u, s) ==
    /\ settingsTable' =
          IF \E i \in DOMAIN settingsTable : settingsTable[i].user_id = u
          THEN [i \in DOMAIN settingsTable |->
                  IF settingsTable[i].user_id = u
                  THEN [settingsTable[i] EXCEPT
                          !.provider_name = s.provider_name,
                          !.api_format = s.api_format,
                          !.api_endpoint = s.api_endpoint,
                          !.request_template = s.request_template]
                  ELSE settingsTable[i]]
          ELSE Append(settingsTable,
                      [user_id |-> u, provider_name |-> s.provider_name,
                       api_format |-> s.api_format, api_endpoint |-> s.api_endpoint,
                       request_template |-> s.request_template])
    /\ UNCHANGED <<clock, conversations, messages, inflight, lastTurn, lastSel,
                   pluginVars, suggestVars, callVars,
                   recordVars, traceVars>>

\* update_settings: the single shared row is created by the first save and
\* overwritten by every later one.
UpdateSettings(u, s) ==
    /\ settingsTable' =
          IF settingsTable # <<>>
          THEN <<[settingsTable[1] EXCEPT
                    !.provider_name = s.provider_name,
                    !.api_format = s.api_format,
                    !.api_endpoint = s.api_endpoint,
                    !.request_template = s.request_template]>>
               \o Tail(settingsTable)
          ELSE <<[user_id |-> u, provider_name |-> s.provider_name,
                  api_format |-> s.api_format, api_endpoint |-> s.api_endpoint,
                  request_template |-> s.request_template]>>
    /\ UNCHANGED <<clock, conversations, messages, inflight, lastTurn, lastSel,
                   pluginVars, suggestVars, callVars,
                   recordVars, traceVars>>

\* A call of AIRouter.get_user_settings by a request of user u; the model
\* counts the calls up to MaxCalls.
GetUserSettings_CreatesRow(u) ==
    /\ resolveCall.calls < MaxCalls
    /\ resolveCall' = [user |-> u, raised |-> FALSE,
                       result |-> get_user_settings(settingsTable),
                       calls |-> resolveCall.calls + 1]
    /\ settingsTable' =
          IF settingsTable = <<>>
          THEN <<[user_id |-> u, provider_name |-> DefaultSettings.provider_name,
                  api_format |-> DefaultSettings.api_format,
                  api_endpoint |-> DefaultSettings.api_endpoint,
                  request_template |-> DefaultSettings.request_template]>>
          ELSE settingsTable
    /\ UNCHANGED <<clock, conversations, messages, inflight, lastTurn, lastSel,
                   pluginVars, suggestVars, parseCall, adapterCall,
                   recordVars, traceVars>>

GetUserSettings(u) ==
    /\ resolveCall.calls < MaxCalls
    /\ resolveCall' = [user |-> u, raised |-> FALSE,
                       result |-> get_user_settings(settingsTable),
                       calls |-> resolveCall.calls + 1]
    /\ UNCHANGED <<chatVars, pluginVars, suggestVars, parseCall, adapterCall,
                   recordVars, traceVars>>

Tick ==
    /\ clock + TickMinutes <= MaxTime
    /\ clock' = clock + TickMinutes
    /\ UNCHANGED <<settingsTable, conversations, messages, inflight, lastTurn,
                   lastSel, pluginVars, suggestVars, callVars,
                   recordVars, traceVars>>

\* ================================================================ adapters
NoAdapterCall == [stage |-> "idle"]
NoResolve == [user |-> "none", calls |-> 0]

\* The message lists an adapter is called with: up to MaxList msgs, each
\* a role and a content.
Roles == {"system", "user", "assistant"}
Contents == {"", "a", "b"}
ChatMessages == [role : Roles, content : Contents]
MessageLists == UNION {[1..k -> ChatMessages] : k \in 0..MaxList}

\* extra_params as the adapters read it: whether it holds a "messages" key
\* and a "system" key, which payload.update() copies over the adapter's own,
\* and what it holds under "request_template" (an object of the template
\* may itself have a "messages" key).
OverrideMessages == <<[role |-> "user", content |-> "from extra_params"]>>
OverrideSystem == "from extra_params"
TemplateMessages == <<[role |-> "user", content |-> "from template"]>>
ExtraParams ==
    { [messages_key |-> FALSE, system_key |-> FALSE, request_template |-> "absent"],
      [messages_key |-> TRUE, system_key |-> FALSE, request_template |-> "absent"],
      [messages_key |-> FALSE, system_key |-> TRUE, request_template |-> "absent"],
      [messages_key |-> FALSE, system_key |-> FALSE, request_template |-> "object"],
      [messages_key |-> FALSE, system_key |-> FALSE,
       request_template |-> "object_with_messages"],
      [messages_key |-> FALSE, system_key |-> FALSE, request_template |-> "not_object"] }

\* A request body: its "messages" array and its top-level "system" key.
Body(msgs, has_system, system) ==
    [raised |-> FALSE, messages |-> msgs, has_system |-> has_system,
     system |-> system]
NoBody == [raised |-> TRUE, messages |-> <<>>, has_system |-> FALSE, system |-> ""]

\* payload.update(extra_params)
update_payload(body, extra) ==
    Body(IF extra.messages_key THEN OverrideMessages ELSE body.messages,
         extra.system_key \/ body.has_system,
         IF extra.system_key THEN OverrideSystem ELSE body.system)

openai_payload(msgs, extra) ==
    update_payload(Body(msgs, FALSE, ""), extra)

\* The loop of _anthropic_format over the msgs from position i on.
RECURSIVE partition_FirstSystem(_, _, _, _)
partition_FirstSystem(msgs, i, system_content, filtered) ==
    IF i > Len(msgs)
    THEN [system_content |-> system_content, filtered |-> filtered]
    ELSE IF msgs[i].role = "system"
    THEN partition_FirstSystem(msgs, i + 1,
             IF system_content.set THEN system_content
             ELSE [set |-> TRUE, content |-> msgs[i].content], filtered)
    ELSE partition_FirstSystem(msgs, i + 1, system_content,
                               Append(filtered, msgs[i]))

RECURSIVE partition(_, _, _, _)
partition(msgs, i, system_content, filtered) ==
    IF i > Len(msgs)
    THEN [system_content |-> system_content, filtered |-> filtered]
    ELSE IF msgs[i].role = "system"
    THEN partition(msgs, i + 1,
                   [set |-> TRUE, content |-> msgs[i].content], filtered)
    ELSE partition(msgs, i + 1, system_content, Append(filtered, msgs[i]))

anthropic_payload_KeepSystem(msgs, extra) ==
    LET parts == partition(msgs, 1, [set |-> FALSE, content |-> ""], <<>>)
        truthy == parts.system_content.set /\ parts.system_content.content # ""
    IN  update_payload(
            Body(msgs, truthy, IF truthy THEN parts.system_content.content ELSE ""),
            extra)

anthropic_payload(msgs, extra) ==
    LET parts == partition(msgs, 1, [set |-> FALSE, content |-> ""], <<>>)
        truthy == parts.system_content.set /\ parts.system_content.content # ""
    IN  update_payload(
            Body(parts.filtered, truthy,
                 IF truthy THEN parts.system_content.content ELSE ""),
            extra)

\* extra_params goes into payload["options"], never into the top level.
ollama_payload(msgs, extra) == Body(msgs, FALSE, "")

\* request_template.copy(), then payload["messages"] = msgs.
custom_body_TemplateWins(msgs, extra) ==
    IF extra.request_template = "not_object" THEN NoBody
    ELSE IF extra.request_template = "object_with_messages"
    THEN Body(TemplateMessages, FALSE, "")
    ELSE Body(msgs, FALSE, "")

custom_body(msgs, extra) ==
    IF extra.request_template = "not_object" THEN NoBody
    ELSE LET template == IF extra.request_template = "object_with_messages"
                         THEN Body(TemplateMessages, FALSE, "")
                         ELSE Body(<<>>, FALSE, "")
         IN  [template EXCEPT !.messages = msgs]

build_payload(format, msgs, extra) ==
    IF format = "openai" THEN openai_payload(msgs, extra)
    ELSE IF format = "anthropic" THEN anthropic_payload(msgs, extra)
    ELSE IF format = "ollama" THEN ollama_payload(msgs, extra)
    ELSE custom_body(msgs, extra)

\* An adapter builds the body of its POST.
BuildRequest(format, msgs, extra) ==
    /\ adapterCall = NoAdapterCall
    /\ adapterCall' = [stage |-> "request", format |-> format, messages |-> msgs,
                       extra |-> extra,
                       payload |-> build_payload(format, msgs, extra)]
    /\ UNCHANGED <<chatVars, pluginVars, suggestVars, parseCall, resolveCall,
                   recordVars, traceVars>>

AdapterReturn ==
    /\ adapterCall # NoAdapterCall
    /\ adapterCall' = NoAdapterCall
    /\ UNCHANGED <<chatVars, pluginVars, suggestVars, parseCall, resolveCall,
                   recordVars, traceVars>>

\* A parsed JSON response: its nodes, node 1 the root.  A node is an
\* object with its members (key, node), or a string, a list or null.
ObjNode(kids) == [t |-> "obj", s |-> "", kids |-> kids]
StrNode(text) == [t |-> "str", s |-> text, kids |-> {}]
ListNode == [t |-> "list", s |-> "", kids |-> {}]
NullNode == [t |-> "null", s |-> "", kids |-> {}]
Responses ==
    { <<ObjNode({<<"a", 2>>}), ObjNode({<<"b", 3>>}), ObjNode({<<"c", 4>>}),
        StrNode("hello")>>,
      <<ObjNode({<<"a", 2>>}), ObjNode({<<"b", 3>>}), ObjNode({})>>,
      <<ObjNode({<<"a", 2>>}), ObjNode({<<"b", 3>>}), StrNode("hello")>>,
      <<ObjNode({<<"a", 2>>, <<"response", 3>>}), ListNode, StrNode("hi")>>,
      <<ObjNode({<<"a", 2>>, <<"c", 3>>}), NullNode, StrNode("hello")>>,
      <<ObjNode({})>>,
      <<ListNode>> }

\* extra_params.response_path: absent, or a string, written as its
\* characters: key names and dots.
PathTokens == {"a", "b", "c", "."}
ResponsePaths ==
    {[present |-> FALSE, text |-> <<>>]}
    \cup {[present |-> TRUE, text |-> p] :
             p \in UNION {[1..k -> PathTokens] : k \in 0..MaxPath}}

\* str.split("."): the pieces between the dots, "" included.
RECURSIVE Split(_, _, _, _)
Split(text, i, piece, pieces) ==
    IF i > Len(text) THEN Append(pieces, piece)
    ELSE IF text[i] = "." THEN Split(text, i + 1, <<>>, Append(pieces, piece))
    ELSE Split(text, i + 1, Append(piece, text[i]), pieces)

response_path(path) ==
    IF path.present THEN Split(path.text, 1, <<>>, <<>>) ELSE <<<<"response">>>>

\* result[key]: the member of an object node under a key made of the
\* characters of piece.
Member(node, piece) == {kid \in node.kids : <<kid[1]>> = piece}

\* The loop "for key in response_path.split('.'): result = result[key]"
\* from piece i on, at node n.
RECURSIVE walk_GetDefault(_, _, _, _)
walk_GetDefault(data, keys, i, n) ==
    IF i > Len(keys) THEN [raised |-> FALSE, error |-> "none", node |-> n]
    ELSE IF data[n].t = "obj" /\ Member(data[n], keys[i]) # {}
    THEN walk_GetDefault(data, keys, i + 1,
                         (CHOOSE kid \in Member(data[n], keys[i]) : TRUE)[2])
    ELSE [raised |-> FALSE, error |-> "none", node |-> 0]

RECURSIVE walk(_, _, _, _)
walk(data, keys, i, n) ==
    IF i > Len(keys) THEN [raised |-> FALSE, error |-> "none", node |-> n]
    ELSE IF data[n].t # "obj" THEN [raised |-> TRUE, error |-> "TypeError", node |-> 0]
    ELSE IF Member(data[n], keys[i]) = {}
    THEN [raised |-> TRUE, error |-> "KeyError", node |-> 0]
    ELSE walk(data, keys, i + 1, (CHOOSE kid \in Member(data[n], keys[i]) : TRUE)[2])

\* The custom adapter reads the text out of the provider's response.
ExtractResponse(path, data) ==
    /\ adapterCall = NoAdapterCall
    /\ adapterCall' = [stage |-> "response", path |-> path, data |-> data,
                       result |-> walk(data, response_path(path), 1, 1)]
    /\ UNCHANGED <<chatVars, pluginVars, suggestVars, parseCall, resolveCall,
                   recordVars, traceVars>>

\* ============================================================= suggestions
NoEntry == [present |-> FALSE]

\* The columns of user_analytics, and the columns the check-in lookup of
\* get_suggestions filters on: a column the model class lacks makes the
\* lookup raise AttributeError.
UserAnalyticsColumns == {"id", "user_id", "metric_type", "metric_value", "recorded_at"}
CheckinQueryColumns == {"user_id", "plugin_name", "event_type", "event_data"}
check_if_checked_in_today_ColumnsExist == [raised |-> FALSE]

check_if_checked_in_today ==
    [raised |-> ~(CheckinQueryColumns \subseteq UserAnalyticsColumns)]

\* One element of the JSON array in a provider reply: a JSON object or some
\* other value, with its "text" and "action" as str() gives them.
VALID_ACTIONS == {"message", "checkin", "resources", "breathing"}
SuggestionItems ==
    { [obj |-> TRUE, text |-> "t1", action |-> "checkin"],
      [obj |-> TRUE, text |-> "t3", action |-> "Breathing"],
      [obj |-> TRUE, text |-> " ", action |-> "checkin"],
      [obj |-> TRUE, text |-> "t5", action |-> "dance"],
      [obj |-> FALSE, text |-> "", action |-> ""] }

\* str.strip() and str.lower() on the texts above.
Strip(text) == IF text = " " THEN "" ELSE text
LowerAction(action) == IF action = "Breathing" THEN "breathing" ELSE action

\* A provider reply as _parse_suggestions sees it: a text without a [...]
\* span, with a span that is not JSON, or with a JSON array of items.
ItemSeqs(n) == UNION {[1..k -> SuggestionItems] : k \in 0..n}
RawReplies(n) ==
    { [array |-> FALSE, json |-> FALSE, items |-> <<>>],
      [array |-> TRUE, json |-> FALSE, items |-> <<>>] }
    \cup { [array |-> TRUE, json |-> TRUE, items |-> s] : s \in ItemSeqs(n) }

Suggestion(item) == [text |-> Strip(item.text), action |-> LowerAction(item.action)]

RECURSIVE parse_loop_NoCap(_, _, _)
parse_loop_NoCap(items, i, results) ==
    IF i > Len(items) THEN results
    ELSE LET item == items[i]
             keep == item.obj /\ Suggestion(item).text # ""
                              /\ Suggestion(item).action \in VALID_ACTIONS
         IN  parse_loop_NoCap(items, i + 1,
                 IF keep THEN Append(results, Suggestion(item)) ELSE results)

parse_suggestions_NoCap(raw) ==
    IF ~raw.array \/ ~raw.json THEN <<>> ELSE parse_loop_NoCap(raw.items, 1, <<>>)

\* The loop of _parse_suggestions from item i on.
RECURSIVE parse_loop(_, _, _)
parse_loop(items, i, results) ==
    IF i > Len(items) THEN results
    ELSE LET item == items[i]
             keep == item.obj /\ Suggestion(item).text # ""
                              /\ Suggestion(item).action \in VALID_ACTIONS
             results1 == IF keep THEN Append(results, Suggestion(item)) ELSE results
         IN  IF item.obj /\ Len(results1) >= 3 THEN results1
             ELSE parse_loop(items, i + 1, results1)

parse_suggestions(raw) ==
    IF ~raw.array \/ ~raw.json THEN <<>> ELSE parse_loop(raw.items, 1, <<>>)

\* The cooldown test: the user has an entry and it is younger than
\* COOLDOWN_MINUTES.
cooldown_hit_Half(entry, now) ==
    entry.present /\ 2 * (now - entry.last_at) < COOLDOWN_MINUTES

cooldown_hit(entry, now) ==
    entry.present /\ now - entry.last_at < COOLDOWN_MINUTES

\* _suggestion_cache[uid] = {"last_at": now, "cached": suggestions}
cache_entry_Expired(now, suggestions) ==
    [present |-> TRUE, last_at |-> now - COOLDOWN_MINUTES, cached |-> suggestions]

cache_entry(now, suggestions) ==
    [present |-> TRUE, last_at |-> now, cached |-> suggestions]

\* What one get_suggestions call meets: whether the message query works,
\* what the provider answers to a POST, and the reply text it sends.
OkOutcome == [kind |-> "ok", text |-> <<>>]
FourValid ==
    [array |-> TRUE, json |-> TRUE,
     items |-> << [obj |-> TRUE, text |-> "t1", action |-> "checkin"],
                  [obj |-> TRUE, text |-> "t2", action |-> "message"],
                  [obj |-> TRUE, text |-> "t3", action |-> "Breathing"],
                  [obj |-> TRUE, text |-> "t4", action |-> "resources"] >>]
FourValidInput == [load |-> "ok", outcome |-> OkOutcome, reply |-> FourValid]
SuggestInputs ==
    { FourValidInput,
      [load |-> "ok", outcome |-> OkOutcome,
       reply |-> [array |-> FALSE, json |-> FALSE, items |-> <<>>]],
      [load |-> "fail", outcome |-> OkOutcome, reply |-> FourValid],
      [load |-> "ok", outcome |-> ReadTimeoutError, reply |-> FourValid],
      [load |-> "ok",
       outcome |-> [kind |-> "network", text |-> <<"All connection attempts failed">>],
       reply |-> FourValid] }

\* The try block of get_suggestions once the conversation is found: the
\* stages run in order and the first one that raises ends the block.
try_suggestions(u, inp) ==
    LET ctx == collect_ai_context(u, hookBehaviour)
        checked == check_if_checked_in_today
        call == AIRouter_chat(settingsTable)
        res == adapter_response(call, inp.outcome)
        failure == IF inp.load # "ok" THEN "load"
                   ELSE IF ctx.raised THEN "context"
                   ELSE IF checked.raised THEN "checkin"
                   ELSE IF call.raised THEN "dispatch"
                   ELSE IF res.raised THEN "provider"
                   ELSE "none"
        reached == failure \in {"dispatch", "provider", "none"}
    IN  [failure |-> failure,
         dispatched |-> IF reached THEN 1 ELSE 0,
         posts |-> IF reached THEN call.posts ELSE 0,
         suggestions |-> IF failure = "none" THEN parse_suggestions(inp.reply)
                         ELSE <<>>]

\* The except clause: any failure turns into the empty list.
except_suggestions_Reraise(attempt) ==
    [raised |-> attempt.failure # "none", suggestions |-> attempt.suggestions]

except_suggestions(attempt) ==
    [raised |-> FALSE,
     suggestions |-> IF attempt.failure # "none" THEN <<>> ELSE attempt.suggestions]

SuggestRecord(u, cid, now, served, returned, posts) ==
    [user |-> u, conv |-> cid, at |-> now, served |-> served,
     returned |-> returned, posts |-> posts, raised |-> FALSE,
     failure |-> "none", dispatched |-> 0]

\* get_suggestions up to its end, or up to the await of the provider's
\* response when the try block gets as far as the POST; the request then
\* waits in a slot and ProviderRespond finishes it.
GetSuggestions(u, cid, inp) ==
    /\ LET now == clock
           entry == suggestionCache[u]
       IN  IF cooldown_hit(entry, now)
           THEN /\ lastSuggest' = SuggestRecord(u, cid, now, "cache", entry.cached, 0)
                /\ UNCHANGED <<suggestionCache, inflight, upstreamLog>>
           ELSE IF cid \notin OwnConversations(u)
           THEN /\ lastSuggest' = SuggestRecord(u, cid, now, "no_conversation", <<>>, 0)
                /\ UNCHANGED <<suggestionCache, inflight, upstreamLog>>
           ELSE LET attempt == try_suggestions(u, inp)
                    result == except_suggestions(attempt)
                    slot == CHOOSE r \in Slots :
                                r \notin Busy /\ \A q \in Slots \ Busy : r <= q
                IN  IF attempt.failure \in {"provider", "none"}
                    THEN /\ Busy # Slots
                         /\ inflight' = [inflight EXCEPT ![slot] =
                               [state |-> "awaiting", handler |-> "get_suggestions",
                                user |-> u, conv |-> cid, msg |-> 0,
                                call |-> AIRouter_chat(settingsTable),
                                cfg |-> settingsTable, overlapped |-> FALSE,
                                at |-> now, reply |-> inp.reply]]
                         /\ upstreamLog' = [upstreamLog EXCEPT ![u] = Append(@, now)]
                         /\ UNCHANGED <<suggestionCache, lastSuggest>>
                    ELSE /\ suggestionCache' =
                               IF result.raised THEN suggestionCache
                               ELSE [suggestionCache EXCEPT ![u] =
                                       cache_entry(now, result.suggestions)]
                         /\ lastSuggest' =
                               [SuggestRecord(u, cid, now, "computed",
                                              result.suggestions, attempt.posts)
                                  EXCEPT !.raised = result.raised,
                                         !.failure = attempt.failure,
                                         !.dispatched = attempt.dispatched]
                         /\ UNCHANGED <<inflight, upstreamLog>>
    /\ UNCHANGED <<clock, settingsTable, conversations, messages, lastTurn, lastSel,
                   pluginVars, callVars, recordVars, lastPrompt>>

\* The provider answers the POST of a suspended request, or the read timeout
\* fires when it has sent nothing for 300 seconds.  send_message goes on
\* from there to its end; so does get_suggestions, which parses the reply
\* and writes the cache entry stamped with the time the request started.
ProviderRespond(r, outcome) ==
    /\ r \in Busy
    /\ IF inflight[r].handler = "get_suggestions"
       THEN /\ outcome.kind = "read_timeout" =>
                  clock - inflight[r].at >= ReadTimeoutMinutes
            /\ LET req == inflight[r]
                   res == adapter_response(req.call, outcome)
                   attempt == [failure |-> IF res.raised THEN "provider" ELSE "none",
                               dispatched |-> 1, posts |-> res.posts,
                               suggestions |-> IF res.raised THEN <<>>
                                               ELSE parse_suggestions(req.reply)]
                   result == except_suggestions(attempt)
               IN  /\ suggestionCache' =
                         IF result.raised THEN suggestionCache
                         ELSE [suggestionCache EXCEPT ![req.user] =
                                 cache_entry(req.at, result.suggestions)]
                   /\ lastSuggest' =
                         [SuggestRecord(req.user, req.conv, req.at, "computed",
                                        result.suggestions, attempt.posts)
                            EXCEPT !.raised = result.raised,
                                   !.failure = attempt.failure,
                                   !.dispatched = attempt.dispatched]
            /\ inflight' = [inflight EXCEPT ![r] = Free]
            /\ UNCHANGED <<messages, conversations, lastTurn>>
       ELSE /\ outcome.kind = "read_timeout" =>
                  clock - messages[inflight[r].msg].created_at >= ReadTimeoutMinutes
            /\ LET req == inflight[r]
                   res == adapter_response(req.call, outcome)
                   done == finish_turn(res, req.conv, messages, conversations, clock)
               IN  /\ messages' = done.messages
                   /\ conversations' = done.conversations
                   /\ lastTurn' = TurnRecord(req.user, done.kind, req.conv, res, req.cfg,
                                             req.overlapped \/ BusyOf(req.user) # {r})
                   /\ inflight' = [inflight EXCEPT ![r] = Free]
            /\ UNCHANGED suggestVars
    /\ UNCHANGED <<clock, settingsTable, lastSel, pluginVars, callVars,
                   recordVars, traceVars>>

\* One call of _parse_suggestions and its return.
NoParse == [called |-> FALSE]
ParseSuggestions(raw) ==
    /\ parseCall = NoParse
    /\ parseCall' = [called |-> TRUE, raw |-> raw, result |-> parse_suggestions(raw)]
    /\ UNCHANGED <<chatVars, pluginVars, suggestVars, adapterCall, resolveCall,
                   recordVars, traceVars>>

ParseReturn ==
    /\ parseCall # NoParse
    /\ parseCall' = NoParse
    /\ UNCHANGED <<chatVars, pluginVars, suggestVars, adapterCall, resolveCall,
                   recordVars, traceVars>>

\* ================================================================ accounts
\* An empty table whose first row gets id 1.
NoRows == [rows |-> {}, next_id |-> 1]
NoAuth == [op |-> "none"]
NoPrompt == [user |-> "none"]

\* The request bodies of register and admin_create_user: a username and an
\* optional email.
Usernames == {"alice", "bob"}
Emails == {"none", "a@example.org"}
AccountIds == 1..MaxAccounts

user_count(table) == Cardinality(table.rows)
Authenticated(table) == {row.id : row \in table.rows}

\* _create_user: 400 on a taken username or email, else the row is added.
create_user(table, username, email) ==
    IF \E row \in table.rows : row.username = username
    THEN [status |-> 400, table |-> table]
    ELSE IF email # "none" /\ \E row \in table.rows : row.email = email
    THEN [status |-> 400, table |-> table]
    ELSE [status |-> 201,
          table |-> [rows |-> table.rows \cup
                                {[id |-> table.next_id, username |-> username,
                                  email |-> email]},
                     next_id |-> table.next_id + 1]]

AuthRecord(op, status, count) == [op |-> op, status |-> status, users_before |-> count]

register_OpenForSecond(username, email) ==
    /\ userTable.next_id <= MaxAccounts
    /\ LET done == IF user_count(userTable) > 1
                   THEN [status |-> 403, table |-> userTable]
                   ELSE create_user(userTable, username, email)
       IN  /\ userTable' = done.table
           /\ lastAuth' = AuthRecord("register", done.status, user_count(userTable))
    /\ UNCHANGED <<chatVars, pluginVars, suggestVars, callVars, checkinTable,
                   traceVars>>

\* register: closed as soon as one user exists.
register(username, email) ==
    /\ userTable.next_id <= MaxAccounts
    /\ LET done == IF user_count(userTable) > 0
                   THEN [status |-> 403, table |-> userTable]
                   ELSE create_user(userTable, username, email)
       IN  /\ userTable' = done.table
           /\ lastAuth' = AuthRecord("register", done.status, user_count(userTable))
    /\ UNCHANGED <<chatVars, pluginVars, suggestVars, callVars, checkinTable,
                   traceVars>>

\* admin_create_user, called with the token of an existing user.
admin_create_user(current, username, email) ==
    /\ current \in Authenticated(userTable)
    /\ userTable.next_id <= MaxAccounts
    /\ LET done == create_user(userTable, username, email)
       IN  /\ userTable' = done.table
           /\ lastAuth' = AuthRecord("create", done.status, user_count(userTable))
    /\ UNCHANGED <<chatVars, pluginVars, suggestVars, callVars, checkinTable,
                   traceVars>>

\* admin_delete_user: never the caller's own row.
admin_delete_user(current, user_id) ==
    /\ current \in Authenticated(userTable)
    /\ LET found == {row \in userTable.rows : row.id = user_id}
           status == IF user_id = current THEN 400
                     ELSE IF found = {} THEN 404
                     ELSE 204
       IN  /\ userTable' = IF status = 204
                           THEN [userTable EXCEPT !.rows = userTable.rows \ found]
                           ELSE userTable
           /\ lastAuth' = AuthRecord("delete", status, user_count(userTable))
    /\ UNCHANGED <<chatVars, pluginVars, suggestVars, callVars, checkinTable,
                   traceVars>>

\* =============================================================== check-ins
\* Calendar days are numbered; Today is date.today() and the day after it
\* is the future.  A request's checkin_date is a day, or 0 when absent.
Today == MaxDays
DateInputs == 0..(MaxDays + 1)
MOOD_LABELS_LOCAL == {"great", "good", "okay", "tired", "struggling"}
MoodInputs == {"good", "tired", "awful"}
CheckinIds == 1..MaxCheckins

\* _parse_checkin_date: today when absent; 400 for a day after today.
parse_checkin_date(checkin_date) ==
    IF checkin_date = 0 THEN [status |-> 200, date |-> Today]
    ELSE IF checkin_date > Today THEN [status |-> 400, date |-> 0]
    ELSE [status |-> 200, date |-> checkin_date]

\* _checkin_for_date: the user's check-in rows recorded within the day.
\* The handlers record at noon of the day, so the row's day stands for its
\* recorded_at.
checkin_for_date(rows, u, target_date) ==
    {row \in rows : row.user_id = u /\ row.recorded_at = target_date}

\* The row looked up by id, user and metric_type.  Of metric_value a row
\* keeps the mood; the note and the date text travel with it.
checkin_entry(rows, u, entry_id) ==
    {row \in rows : row.id = entry_id /\ row.user_id = u}

\* The rows with row old replaced by its new version.
Replace(rows, old, new) == (rows \ {old}) \cup {new}

submit_checkin_AlwaysInsert(u, mood, checkin_date) ==
    /\ checkinTable.next_id <= MaxCheckins
    /\ LET parsed == parse_checkin_date(checkin_date)
           rows == checkinTable.rows
       IN  checkinTable' =
             IF ~is_enabled("daily_checkin", u) THEN checkinTable
             ELSE IF mood \notin MOOD_LABELS_LOCAL THEN checkinTable
             ELSE IF parsed.status # 200 THEN checkinTable
             ELSE [rows |-> rows \cup
                              {[id |-> checkinTable.next_id, user_id |-> u,
                                recorded_at |-> parsed.date, mood |-> mood]},
                   next_id |-> checkinTable.next_id + 1]
    /\ UNCHANGED <<chatVars, pluginVars, suggestVars, callVars, userTable,
                   lastAuth, traceVars>>

\* submit_checkin: 403 with the plugin off, 400 on a mood or a date it
\* refuses; else the row of that day is updated, or a row is added.
submit_checkin(u, mood, checkin_date) ==
    /\ checkin_for_date(checkinTable.rows, u, parse_checkin_date(checkin_date).date) = {}
          => checkinTable.next_id <= MaxCheckins
    /\ LET parsed == parse_checkin_date(checkin_date)
           rows == checkinTable.rows
           existing == checkin_for_date(rows, u, parsed.date)
       IN  checkinTable' =
             IF ~is_enabled("daily_checkin", u) THEN checkinTable
             ELSE IF mood \notin MOOD_LABELS_LOCAL THEN checkinTable
             ELSE IF parsed.status # 200 THEN checkinTable
             ELSE IF existing # {}
             THEN LET row == CHOOSE r \in existing : TRUE
                  IN  [checkinTable EXCEPT !.rows =
                         Replace(rows, row, [row EXCEPT !.mood = mood])]
             ELSE [rows |-> rows \cup
                              {[id |-> checkinTable.next_id, user_id |-> u,
                                recorded_at |-> parsed.date, mood |-> mood]},
                   next_id |-> checkinTable.next_id + 1]
    /\ UNCHANGED <<chatVars, pluginVars, suggestVars, callVars, userTable,
                   lastAuth, traceVars>>

\* update_checkin: 403, 404, 400 in that order; with a target date that
\* another row of the user holds, that row takes the new values and the
\* entry is deleted; with a free target date the entry moves there; with
\* no target date the entry keeps its day.
update_checkin(u, entry_id, mood, checkin_date) ==
    /\ LET rows == checkinTable.rows
           found == checkin_entry(rows, u, entry_id)
           parsed == parse_checkin_date(checkin_date)
       IN  checkinTable' =
             IF ~is_enabled("daily_checkin", u) THEN checkinTable
             ELSE IF found = {} THEN checkinTable
             ELSE IF mood \notin MOOD_LABELS_LOCAL THEN checkinTable
             ELSE IF checkin_date # 0 /\ parsed.status # 200 THEN checkinTable
             ELSE LET entry == CHOOSE r \in found : TRUE
                      others == IF checkin_date = 0 THEN {}
                                ELSE {r \in checkin_for_date(rows, u, parsed.date) :
                                         r.id # entry.id}
                  IN  IF others # {}
                      THEN LET target == CHOOSE r \in others : TRUE
                           IN  [checkinTable EXCEPT !.rows =
                                  Replace(rows \ {entry}, target,
                                          [target EXCEPT !.mood = mood])]
                      ELSE [checkinTable EXCEPT !.rows =
                              Replace(rows, entry,
                                  [entry EXCEPT
                                     !.mood = mood,
                                     !.recorded_at = IF checkin_date = 0
                                                     THEN entry.recorded_at
                                                     ELSE parsed.date])]
    /\ UNCHANGED <<chatVars, pluginVars, suggestVars, callVars, userTable,
                   lastAuth, traceVars>>

\* delete_checkin: 403, 404, else the row goes.
delete_checkin(u, entry_id) ==
    /\ LET found == checkin_entry(checkinTable.rows, u, entry_id)
       IN  checkinTable' =
             IF ~is_enabled("daily_checkin", u) \/ found = {} THEN checkinTable
             ELSE [checkinTable EXCEPT !.rows = checkinTable.rows \ found]
    /\ UNCHANGED <<chatVars, pluginVars, suggestVars, callVars, userTable,
                   lastAuth, traceVars>>

Init ==
    /\ clock = 0
    /\ settingsTable = <<>>
    /\ conversations = <<>>
    /\ messages = <<>>
    /\ inflight = [r \in Slots |-> Free]
    /\ lastTurn = NoTurn
    /\ lastSel = NoSel
    /\ userPlugins = [u \in Users |-> [p \in Plugins |-> "none"]]
    /\ hookBehaviour = QuietHooks
    /\ ctxCall = NoCall
    /\ suggestionCache = [u \in Users |-> NoEntry]
    /\ lastSuggest = [user |-> "none"]
    /\ parseCall = NoParse
    /\ adapterCall = NoAdapterCall
    /\ resolveCall = NoResolve
    /\ userTable = NoRows
    /\ lastAuth = NoAuth
    /\ checkinTable = NoRows
    /\ upstreamLog = [u \in Users |-> <<>>]
    /\ lastPrompt = NoPrompt

\* The chat turns over time, with the provider configured, unconfigured or
\* configured with an empty endpoint.
ChatSettingsInputs ==
    {s \in SettingsInputs : s.provider_name = "LocalAI" /\ s.api_format = "openai"}

Next ==
    \/ Tick
    \/ \E s \in ChatSettingsInputs : UpdateSettings("u1", s)
    \/ \E u \in Users, cid \in 0..MaxConvs : SendMessage(u, cid)
    \/ \E r \in Slots, outcome \in UpstreamOutcomes : ProviderRespond(r, outcome)

Spec == Init /\ [][Next]_vars

\* The dispatcher under every provider configuration, at one instant.
DispatchNext ==
    \/ \E u \in Users, s \in SettingsInputs : UpdateSettings(u, s)
    \/ \E cid \in 0..1 : SendMessage("u1", cid)
    \/ \E r \in Slots, outcome \in UpstreamOutcomes : ProviderRespond(r, outcome)

DispatchSpec == Init /\ [][DispatchNext]_vars

\* The aggregator alone: a user switches plugins on and off, the hooks
\* change what they do, and the context is collected for either user.
ToggleInputs == {"absent", "true", "false"}

PluginNext ==
    \/ \E p \in Plugins, data \in ToggleInputs : toggle_plugin(p, "u1", data)
    \/ \E p \in Plugins, outcome \in HookOutcomes : HookChange(p, outcome)
    \/ \E u \in Users : CollectAiContext(u)

PluginSpec == Init /\ [][PluginNext]_vars

\* The suggestion endpoint over time; conversations come from chat turns
\* with no provider configured.
SuggestNext ==
    \/ Tick
    \/ \E u \in Users : SendMessage(u, 0)
    \/ \E u \in Users, cid \in 1..MaxConvs : GetSuggestions(u, cid, FourValidInput)

SuggestSpec == Init /\ [][SuggestNext]_vars

\* The suggestion endpoint under every provider configuration, at one
\* instant.
SuggestDispatchNext ==
    \/ \E s \in SettingsInputs : UpdateSettings("u1", s)
    \/ SendMessage("u1", 0)
    \/ \E r \in Slots : ProviderRespond(r, OkOutcome)
    \/ \E cid \in 1..MaxConvs, inp \in SuggestInputs : GetSuggestions("u1", cid, inp)

SuggestDispatchSpec == Init /\ [][SuggestDispatchNext]_vars

\* _parse_suggestions on every reply of up to MaxItems items, next to the
\* endpoint that calls it.
ParseNext ==
    \/ \E raw \in RawReplies(MaxItems) : ParseSuggestions(raw)
    \/ ParseReturn
    \/ SendMessage("u1", 0)
    \/ \E cid \in 1..MaxConvs, inp \in SuggestInputs : GetSuggestions("u1", cid, inp)

ParseSpec == Init /\ [][ParseNext]_vars

\* The adapters alone: every format builds its request body for every message
\* list and extra_params, and the custom adapter walks every response path.
AdapterNext ==
    \/ /\ adapterCall = NoAdapterCall
       /\ \E format \in KnownFormats, msgs \in MessageLists, extra \in ExtraParams :
             BuildRequest(format, msgs, extra)
    \/ /\ adapterCall = NoAdapterCall
       /\ \E path \in ResponsePaths, data \in Responses : ExtractResponse(path, data)
    \/ AdapterReturn

AdapterSpec == Init /\ [][AdapterNext]_vars

\* The settings resolver alone: the configuration is saved and resolved in
\* any order, by either user.
SettingsNext ==
    \/ \E u \in Users, s \in SettingsInputs : UpdateSettings(u, s)
    \/ \E u \in Users : GetUserSettings(u)

SettingsSpec == Init /\ [][SettingsNext]_vars

\* The chat endpoint next to the plugins: the first two plugins' hooks
\* change what they return, the first plugin is switched off and on, and
\* turns run against a configured provider that answers.
PromptNext ==
    \/ \E p \in {Registry[1], Registry[2]}, outcome \in HookOutcomes : HookChange(p, outcome)
    \/ toggle_plugin(Registry[1], "u1", "absent")
    \/ \E s \in ChatSettingsInputs : UpdateSettings("u1", s)
    \/ \E cid \in 0..1 : SendMessage("u1", cid)
    \/ \E r \in Slots : ProviderRespond(r, OkOutcome)

PromptSpec == Init /\ [][PromptNext]_vars

\* The plugin switches alone, for both users.
ToggleNext ==
    \E p \in Plugins, u \in Users, data \in ToggleInputs : toggle_plugin(p, u, data)

ToggleSpec == Init /\ [][ToggleNext]_vars

\* The accounts alone: registration and user management from the empty
\* database on.
AccountNext ==
    \/ \E username \in Usernames, email \in Emails : register(username, email)
    \/ \E current \in AccountIds, username \in Usernames, email \in Emails :
          admin_create_user(current, username, email)
    \/ \E current \in AccountIds, user_id \in AccountIds :
          admin_delete_user(current, user_id)

AccountSpec == Init /\ [][AccountNext]_vars

\* The check-in endpoints alone, for both users, with the plugin switched
\* on and off by the first.
CheckinNext ==
    \/ \E data \in {"true", "false"} : toggle_plugin("daily_checkin", "u1", data)
    \/ \E u \in Users, mood \in MoodInputs, checkin_date \in DateInputs :
          submit_checkin(u, mood, checkin_date)
    \/ \E u \in Users, entry_id \in CheckinIds, mood \in MoodInputs,
          checkin_date \in DateInputs :
          update_checkin(u, entry_id, mood, checkin_date)
    \/ \E u \in Users, entry_id \in CheckinIds : delete_checkin(u, entry_id)

CheckinSpec == Init /\ [][CheckinNext]_vars

\* ================================================================== claims
\* A send_message whose chat call has returned or raised.
CallFinished == lastTurn.kind \in {"reply", "fallback", "error502"}

\* The settings table as a chat call read it holds no endpoint.
NoEndpoint(cfg) == cfg = <<>> \/ cfg[1].api_endpoint = ""

\* The provider's chat was entered with an endpoint and this format tag.
Dispatched(cfg, formats) ==
    /\ cfg # <<>>
    /\ cfg[1].api_endpoint # ""
    /\ cfg[1].provider_name # "unconfigured"
    /\ cfg[1].api_format \in formats

\* C1: with no settings row, or a row whose endpoint is empty, the chat call
\* raises the configuration error and has issued no POST: no such call is ever
\* waiting for a response, and a finished one ended in that error with zero
\* POSTs.
C1_NoEndpointNoCall ==
    /\ \A r \in Busy : ~NoEndpoint(inflight[r].cfg)
    /\ (CallFinished /\ NoEndpoint(lastTurn.cfg)) =>
          (lastTurn.error = ConfigError /\ lastTurn.posts = 0)

C1_Witness ==
    /\ CallFinished
    /\ lastTurn.cfg # <<>>
    /\ lastTurn.cfg[1].api_endpoint = ""
    /\ lastTurn.error = ConfigError
    /\ lastTurn.posts = 0

BadTemplate(cfg) ==
    cfg[1].api_format = "custom" /\ cfg[1].request_template = "not_object"

C3_AdapterByTag ==
    /\ \A r \in Busy :
          /\ inflight[r].cfg # <<>>
          /\ inflight[r].call.adapter = inflight[r].cfg[1].api_format
          /\ inflight[r].call.adapter \in KnownFormats
    /\ (CallFinished /\ lastTurn.adapter # "none") =>
          (lastTurn.cfg # <<>> /\ lastTurn.adapter = lastTurn.cfg[1].api_format)
    /\ (CallFinished /\ lastTurn.cfg # <<>>
          /\ lastTurn.cfg[1].api_format \notin KnownFormats) =>
          /\ lastTurn.error.kind = "config"
          /\ lastTurn.adapter = "none"
          /\ lastTurn.posts = 0

C3_Witness ==
    /\ CallFinished
    /\ Dispatched(lastTurn.cfg, ApiFormats \ KnownFormats)
    /\ lastTurn.error = UnsupportedError
    /\ lastTurn.posts = 0

\* A step in which user u's send_message without conversation_id selected its
\* conversation and stored the user message.
SelectsWithoutId(u) == lastSel'.msg # lastSel.msg /\ lastSel'.user = u

\* The message stored last in conversation c is a user message.
EndsWithUserMessage(c) ==
    \E m \in MessagesOf(c) :
        messages[m].role = "user" /\ \A k \in MessagesOf(c) : k <= m

\* Conversation c is u's most recently updated one, its latest message is a
\* user message and its update is at most 20 minutes old.
Resumable(u, c) ==
    /\ c \in OwnConversations(u)
    /\ \A d \in OwnConversations(u) : UpdatedNotBefore(c, d)
    /\ EndsWithUserMessage(c)
    /\ clock - conversations[c].updated_at <= ReuseWindowMinutes

\* C4: a send_message without conversation_id stores its message in the
\* user's most recently updated conversation exactly when that conversation's
\* latest message is a user message and its update is at most 20 minutes old;
\* otherwise it stores the message in a conversation it creates.
C4_ReuseIffStalledAndRecent ==
    [][\A u \in Users :
        SelectsWithoutId(u) =>
            LET m == Len(messages) + 1
            IN  IF \E c \in OwnConversations(u) : Resumable(u, c)
                THEN /\ Len(conversations') = Len(conversations)
                     /\ Resumable(u, messages'[m].conversation_id)
                ELSE /\ Len(conversations') = Len(conversations) + 1
                     /\ messages'[m].conversation_id = Len(conversations')
                     /\ conversations'[Len(conversations')].user_id = u]_vars

C4_Witness ==
    /\ lastSel.msg # 0
    /\ lastSel.reused
    /\ \E k \in MessagesOf(lastSel.conv) :
          /\ k < lastSel.msg
          /\ messages[k].role = "user"
          /\ messages[lastSel.msg].created_at - messages[k].created_at
                = ReuseWindowMinutes

\* User u's latest send_message ended in a failure of the chat call of one of
\* these kinds, no other request of u overlapped it, u has done nothing since,
\* and the conversation it wrote to was updated at most 20 minutes ago.
FailedTurnPending(u, kinds) ==
    /\ lastTurn.user = u
    /\ lastTurn.kind \in {"fallback", "error502"}
    /\ lastTurn.error.kind \in kinds
    /\ ~lastTurn.overlapped
    /\ BusyOf(u) = {}
    /\ clock - conversations[lastTurn.conv].updated_at <= ReuseWindowMinutes

\* The step stores u's message in the conversation of u's latest turn and
\* creates no conversation.
ContinuesLastTurn ==
    /\ Len(conversations') = Len(conversations)
    /\ messages'[Len(messages) + 1].conversation_id = lastTurn.conv

\* C5 as claimed: after a turn that ended in a configuration error or an
\* upstream error other than a read timeout, the user's next send_message
\* without conversation_id, within 20 minutes and with nothing in between,
\* continues that conversation.
C5_ReuseAfterError ==
    [][\A u \in Users :
        (SelectsWithoutId(u) /\
         FailedTurnPending(u, {"config", "template", "status", "network", "malformed"}))
            => ContinuesLastTurn]_vars

\* C6 as claimed: after a turn that ended in a read timeout of the chat call,
\* the user's next send_message without conversation_id, within 20 minutes
\* and with nothing in between, continues that conversation.
C6_ReuseAfterTimeout ==
    [][\A u \in Users :
        (SelectsWithoutId(u) /\ FailedTurnPending(u, {"read_timeout"}))
            => ContinuesLastTurn]_vars

\* After a turn that send_message ended with 502, whatever the error, the
\* next send_message without conversation_id continues the conversation.
ReuseAfter502 ==
    [][\A u \in Users :
        (SelectsWithoutId(u) /\ lastTurn.kind = "error502" /\
         FailedTurnPending(u, {"config", "template", "status", "network", "malformed"}))
            => ContinuesLastTurn]_vars

\* C7: no message of a conversation was created after the conversation's
\* update timestamp: each message send_message stores, the user message, the
\* reply and the timeout fallback alike, is followed by the refresh.
C7_UpdatedNotBeforeMessages ==
    \A m \in DOMAIN messages :
        conversations[messages[m].conversation_id].updated_at
            >= messages[m].created_at

C7_Witness ==
    /\ lastTurn.kind = "fallback"
    /\ LET c == lastTurn.conv
       IN  /\ messages[LastMessage(c)].role = "assistant"
           /\ conversations[c].updated_at = messages[LastMessage(c)].created_at
           /\ \E k \in MessagesOf(c) :
                 messages[k].created_at < conversations[c].updated_at

\* ------------------------------------------------------------------- C8, C9
\* The plugins whose hook collect_ai_context calls for user u, and those
\* whose hook then returns a non-empty text, in registration order.
EnabledFor(u) == SelectSeq(Registry, LAMBDA p : userPlugins[u][p] # "off")
Contributors(u, hooks) ==
    SelectSeq(Registry, LAMBDA p : userPlugins[u][p] # "off" /\ hooks[p] = "text")
Failing(u, hooks) ==
    SelectSeq(Registry, LAMBDA p : userPlugins[u][p] # "off" /\ hooks[p] = "raise")

\* The contributions c, each followed by a blank line except the last.
IsBlankLineJoin(value, c) ==
    /\ Len(value) = (IF c = <<>> THEN 0 ELSE 2 * Len(c) - 1)
    /\ \A i \in 1..Len(c) : value[2 * i - 1] = c[i]
    /\ \A i \in 1..(Len(c) - 1) : value[2 * i] = Separator

\* C8: collect_ai_context never propagates a plugin failure: whichever hooks
\* raise, the call raises nothing, it goes on to the plugins registered after
\* the failing one, and it returns the string built from the plugins that
\* did not fail.
C8_PluginFailureSwallowed ==
    ctxCall.user # "none" /\ Failing(ctxCall.user, hookBehaviour) # <<>> =>
        /\ ~ctxCall.result.raised
        /\ ctxCall.result.swallowed = Failing(ctxCall.user, hookBehaviour)
        /\ ctxCall.result.value =
              Join([i \in 1..Len(Contributors(ctxCall.user, hookBehaviour)) |->
                       ContextText(Contributors(ctxCall.user, hookBehaviour)[i])])

\* One hook has thrown, one returned nothing and the last one returned its
\* text: the call returned exactly that text.
C8_Witness ==
    /\ ctxCall.user # "none"
    /\ ~ctxCall.result.raised
    /\ ctxCall.result.invoked = Registry
    /\ Len(ctxCall.result.swallowed) = 1
    /\ ctxCall.result.swallowed[1] # Registry[Len(Registry)]
    /\ ctxCall.result.value = ContextText(Registry[Len(Registry)])

\* C9: collect_ai_context calls the hooks of exactly the plugins the user has
\* not disabled (no row counts as enabled), in registration order, and
\* returns the non-null, non-empty results in that order with a blank line
\* between two of them, the empty string when there is none.
C9_EnabledContributionsJoined ==
    ctxCall.user # "none" =>
        /\ ~ctxCall.result.raised
        /\ ctxCall.result.invoked = EnabledFor(ctxCall.user)
        /\ IsBlankLineJoin(ctxCall.result.value,
                           Contributors(ctxCall.user, hookBehaviour))
        /\ Contributors(ctxCall.user, hookBehaviour) = <<>> =>
              ctxCall.result.value = <<>>

\* The second plugin is disabled and skipped, the first and the last
\* contribute and are joined in registration order.
C9_Witness ==
    /\ ctxCall.user = "u1"
    /\ userPlugins["u1"][Registry[2]] = "off"
    /\ userPlugins["u1"][Registry[1]] = "none"
    /\ ctxCall.result.invoked = SelectSeq(Registry, LAMBDA p : p # Registry[2])
    /\ Len(ctxCall.result.value) >= 3
    /\ ctxCall.result.value[1] = Registry[1]
    /\ ctxCall.result.value[2] = Separator
    /\ ctxCall.result.value[Len(ctxCall.result.value)] = Registry[Len(Registry)]

\* ---------------------------------------------------------------------- C10
\* C10: a get_suggestions call made while the user's cache entry is younger
\* than 10 minutes returns the cached list, calls no provider and leaves the
\* entry as it is, whatever conversation id it passes.
C10_CooldownServesCache ==
    [][\A u \in Users :
          (/\ lastSuggest' # lastSuggest
           /\ lastSuggest'.user = u
           /\ suggestionCache[u].present
           /\ clock - suggestionCache[u].last_at < 10)
          => /\ lastSuggest'.returned = suggestionCache[u].cached
             /\ lastSuggest'.posts = 0
             /\ suggestionCache'[u] = suggestionCache[u]]_vars

\* A call later than the one that filled the cache, within the cooldown, for
\* a conversation the user does not own, served from the cache.
C10_Witness ==
    /\ lastSuggest.user # "none"
    /\ suggestionCache[lastSuggest.user].present
    /\ lastSuggest.at > suggestionCache[lastSuggest.user].last_at
    /\ lastSuggest.at - suggestionCache[lastSuggest.user].last_at < 10
    /\ lastSuggest.conv \notin OwnConversations(lastSuggest.user)
    /\ lastSuggest.served = "cache"
    /\ lastSuggest.returned = suggestionCache[lastSuggest.user].cached

\* ---------------------------------------------------------------------- C11
\* C11: get_suggestions never raises: whichever stage of the computation
\* fails (the message query, the plugin context, the check-in lookup, the
\* provider call, the parsing), the call returns the empty list.
C11_FailureGivesEmptyList ==
    lastSuggest.user # "none" =>
        /\ ~lastSuggest.raised
        /\ lastSuggest.failure # "none" => lastSuggest.returned = <<>>

\* A call whose check-in lookup failed and that returned the empty list.
C11_Witness ==
    /\ lastSuggest.user # "none"
    /\ lastSuggest.served = "computed"
    /\ lastSuggest.failure = "checkin"
    /\ ~lastSuggest.raised
    /\ lastSuggest.returned = <<>>

\* ---------------------------------------------------------------------- C12
ProviderConfigured ==
    /\ settingsTable # <<>>
    /\ settingsTable[1].provider_name # "unconfigured"
    /\ settingsTable[1].api_endpoint # ""
    /\ settingsTable[1].api_format \in KnownFormats

FirstThreeOfFourValid ==
    << [text |-> "t1", action |-> "checkin"],
       [text |-> "t2", action |-> "message"],
       [text |-> "t3", action |-> "breathing"] >>

\* C12: with no cache entry younger than 10 minutes, a conversation of the
\* user's own and a configured provider that replies with a JSON array of 4
\* valid suggestions, get_suggestions calls the dispatcher exactly once and
\* returns the first 3 suggestions in order.
C12_FourValidGivesFirstThree ==
    [][\A u \in Users, cid \in 1..MaxConvs :
          (/\ GetSuggestions(u, cid, FourValidInput)
           /\ ~(suggestionCache[u].present /\ clock - suggestionCache[u].last_at < 10)
           /\ cid \in OwnConversations(u)
           /\ ProviderConfigured)
          => /\ lastSuggest'.dispatched = 1
             /\ lastSuggest'.returned = FirstThreeOfFourValid]_vars

\* ---------------------------------------------------------------------- C13
WellFormedSuggestions(list) ==
    /\ Len(list) <= 3
    /\ \A i \in 1..Len(list) :
          list[i].text # "" /\ list[i].action \in {"message", "checkin", "resources", "breathing"}

\* C13: every list get_suggestions returns, every list the cache holds and
\* every list _parse_suggestions produces for them has at most 3 elements,
\* each with a non-empty text and an action of the enumeration.
C13_ZeroToThreeValid ==
    /\ lastSuggest.user # "none" => WellFormedSuggestions(lastSuggest.returned)
    /\ \A u \in Users :
          suggestionCache[u].present => WellFormedSuggestions(suggestionCache[u].cached)
    /\ parseCall.called => WellFormedSuggestions(parseCall.result)

\* A reply of more than 3 items, all valid, parsed to its first 3.
C13_Witness ==
    /\ parseCall.called
    /\ Len(parseCall.raw.items) > 3
    /\ \A i \in 1..Len(parseCall.raw.items) :
          /\ parseCall.raw.items[i].obj
          /\ Strip(parseCall.raw.items[i].text) # ""
          /\ LowerAction(parseCall.raw.items[i].action) \in VALID_ACTIONS
    /\ parseCall.result = [i \in 1..3 |-> Suggestion(parseCall.raw.items[i])]

\* ----------------------------------------------------------------- C14..C16
AnthropicRequest == adapterCall.stage = "request" /\ adapterCall.format = "anthropic"
SystemPositions(msgs) == {i \in DOMAIN msgs : msgs[i].role = "system"}
NonSystem(msgs) == SelectSeq(msgs, LAMBDA m : m.role # "system")
PlainExtra(extra) == ~extra.messages_key /\ ~extra.system_key

\* C14 as claimed: for every message list with exactly one system message,
\* the Anthropic body has no system-role entry in "messages" and a top-level
\* "system" equal to that message's content.
C14_OneSystemMessageLifted ==
    AnthropicRequest /\ Cardinality(SystemPositions(adapterCall.messages)) = 1 =>
        LET i == CHOOSE j \in SystemPositions(adapterCall.messages) : TRUE
        IN  /\ SystemPositions(adapterCall.payload.messages) = {}
            /\ adapterCall.payload.has_system
            /\ adapterCall.payload.system = adapterCall.messages[i].content

\* C14 as amended: the same, for a system message of non-empty content and
\* extra_params without a "system" or "messages" key.
C14_NonEmptySystemMessageLifted ==
    (/\ AnthropicRequest
     /\ Cardinality(SystemPositions(adapterCall.messages)) = 1
     /\ PlainExtra(adapterCall.extra)
     /\ \A j \in SystemPositions(adapterCall.messages) :
           adapterCall.messages[j].content # "") =>
        LET i == CHOOSE j \in SystemPositions(adapterCall.messages) : TRUE
        IN  /\ SystemPositions(adapterCall.payload.messages) = {}
            /\ adapterCall.payload.has_system
            /\ adapterCall.payload.system = adapterCall.messages[i].content

\* A system message between two others, lifted out of the list.
C14_Witness ==
    /\ AnthropicRequest
    /\ PlainExtra(adapterCall.extra)
    /\ Len(adapterCall.messages) = 3
    /\ adapterCall.messages[2] = [role |-> "system", content |-> "a"]
    /\ SystemPositions(adapterCall.messages) = {2}
    /\ adapterCall.payload.has_system
    /\ adapterCall.payload.system = "a"
    /\ Len(adapterCall.payload.messages) = 2

FirstSystem(msgs) ==
    CHOOSE i \in SystemPositions(msgs) : \A j \in SystemPositions(msgs) : i <= j
LastSystem(msgs) ==
    CHOOSE i \in SystemPositions(msgs) : \A j \in SystemPositions(msgs) : j <= i

\* C15 as claimed: with several system messages, the top-level "system" is
\* the content of the first of them.
C15_FirstSystemMessageUsed ==
    AnthropicRequest /\ Cardinality(SystemPositions(adapterCall.messages)) > 1 =>
        /\ adapterCall.payload.has_system
        /\ adapterCall.payload.system =
              adapterCall.messages[FirstSystem(adapterCall.messages)].content

\* C15 as amended: with several system messages and no "system" key in
\* extra_params, the top-level "system" is the content of the last of them,
\* and the key is left out when that content is empty.
C15_LastSystemMessageUsed ==
    (/\ AnthropicRequest
     /\ Cardinality(SystemPositions(adapterCall.messages)) > 1
     /\ ~adapterCall.extra.system_key) =>
        LET last == adapterCall.messages[LastSystem(adapterCall.messages)].content
        IN  /\ adapterCall.payload.has_system = (last # "")
            /\ adapterCall.payload.has_system => adapterCall.payload.system = last

\* Two system messages of different content: the second one is used.
C15_Witness ==
    /\ AnthropicRequest
    /\ ~adapterCall.extra.system_key
    /\ Len(adapterCall.messages) >= 2
    /\ adapterCall.messages[1] = [role |-> "system", content |-> "a"]
    /\ adapterCall.messages[2] = [role |-> "system", content |-> "b"]
    /\ SystemPositions(adapterCall.messages) = {1, 2}
    /\ adapterCall.payload.system = "b"

ExpectedMessages(format, msgs) ==
    IF format = "anthropic" THEN NonSystem(msgs) ELSE msgs

\* C16 as claimed: for each adapter and every settings object, the "messages"
\* array of the emitted body is the input list in input order (for
\* Anthropic, the non-system messages in input order).
C16_MessagesKeptInOrder ==
    adapterCall.stage = "request" /\ ~adapterCall.payload.raised =>
        adapterCall.payload.messages =
            ExpectedMessages(adapterCall.format, adapterCall.messages)

\* C16 as amended: the same, unless extra_params has a "messages" key and
\* the adapter is the OpenAI or the Anthropic one, which copy extra_params
\* over the body.
C16_MessagesKeptUnlessOverridden ==
    (/\ adapterCall.stage = "request"
     /\ ~adapterCall.payload.raised
     /\ ~(adapterCall.extra.messages_key
          /\ adapterCall.format \in {"openai", "anthropic"})) =>
        adapterCall.payload.messages =
            ExpectedMessages(adapterCall.format, adapterCall.messages)

\* The custom adapter with a template that has its own "messages": the
\* body carries the three input messages in input order.
C16_Witness ==
    /\ adapterCall.stage = "request"
    /\ adapterCall.format = "custom"
    /\ adapterCall.extra.request_template = "object_with_messages"
    /\ Len(adapterCall.messages) = 3
    /\ adapterCall.messages[1] # adapterCall.messages[2]
    /\ adapterCall.messages[2] # adapterCall.messages[3]
    /\ adapterCall.payload.messages = adapterCall.messages

\* ---------------------------------------------------------------------- C17
\* The nodes that the first i pieces of the path lead to from the root,
\* through members of objects only.
ReachedBy(data, keys) ==
    LET reached[i \in 0..Len(keys)] ==
            IF i = 0 THEN {1}
            ELSE {kid[2] : kid \in
                    {k \in UNION {data[n].kids : n \in reached[i - 1]} :
                        <<k[1]>> = keys[i]}}
    IN  reached[Len(keys)]

\* C17: the custom adapter returns the value that the dot-separated response
\* path leads to through the parsed response, piece by piece, and when a
\* piece is missing the call raises and returns nothing.
C17_ResponsePathWalk ==
    adapterCall.stage = "response" =>
        LET keys == response_path(adapterCall.path)
            reached == ReachedBy(adapterCall.data, keys)
        IN  IF reached = {}
            THEN adapterCall.result.raised /\ adapterCall.result.node = 0
            ELSE ~adapterCall.result.raised /\ adapterCall.result.node \in reached

\* The path a.b.c on {"a": {"b": {"c": "hello"}}} gives "hello".
C17_Witness ==
    /\ adapterCall.stage = "response"
    /\ adapterCall.path = [present |-> TRUE, text |-> <<"a", ".", "b", ".", "c">>]
    /\ Len(adapterCall.data) = 4
    /\ ~adapterCall.result.raised
    /\ adapterCall.data[adapterCall.result.node] = StrNode("hello")

\* ----------------------------------------------------------------- C18, C19
\* The request in slot r ends by storing one assistant message in its own
\* conversation, after its user message, which stays as it was.
StoresAssistantMessage(r) ==
    /\ Len(messages') = Len(messages) + 1
    /\ messages'[Len(messages')].role = "assistant"
    /\ messages'[Len(messages')].conversation_id = inflight[r].conv
    /\ \A i \in DOMAIN messages : messages'[i] = messages[i]
    /\ messages'[inflight[r].msg].role = "user"
    /\ messages'[inflight[r].msg].conversation_id = inflight[r].conv

EndsWith502(r, outcome) ==
    /\ lastTurn'.kind = "error502"
    /\ lastTurn'.error = outcome
    /\ lastTurn'.conv = inflight[r].conv
    /\ messages' = messages
    /\ messages[inflight[r].msg].role = "user"

Failures == {o \in UpstreamOutcomes : o.kind \in {"status", "network", "malformed"}}
TimeoutWords == {"timeout", "Timeout", "timed out", "too long to respond"}
NamesTimeout(outcome) == \E i \in DOMAIN outcome.text : outcome.text[i] \in TimeoutWords

\* C19 as claimed: when the provider call fails with anything but a read
\* timeout (network failure, non-2xx status of any code, malformed body),
\* the request ends with 502 and the diagnostic text, no assistant message
\* is appended and the user's message remains.
C19_OtherFailuresGive502 ==
    [][\A r \in Slots : \A outcome \in Failures :
        ProviderRespond(r, outcome) => EndsWith502(r, outcome)]_vars

\* C19 as amended: the same for every such failure whose error text
\* contains none of "timeout", "timed out", "too long to respond" in any
\* letter case.
C19_UnnamedFailuresGive502 ==
    [][\A r \in Slots : \A outcome \in Failures :
        ProviderRespond(r, outcome) /\ ~NamesTimeout(outcome)
            => EndsWith502(r, outcome)]_vars

\* A turn ended with 502 by a status 500: the user's message is the last
\* one of its conversation.
C19_Witness ==
    /\ lastTurn.kind = "error502"
    /\ lastTurn.error.kind = "status"
    /\ lastTurn.posts = 1
    /\ \E i \in DOMAIN messages :
          /\ messages[i].conversation_id = lastTurn.conv
          /\ messages[i].role = "user"
          /\ \A j \in DOMAIN messages :
                j > i => messages[j].conversation_id # lastTurn.conv

\* ---------------------------------------------------------------------- C20
\* C20: while no provider configuration is stored, every call of
\* get_user_settings returns the same default settings (format openai,
\* empty endpoint and key, temperature 0.7, 1000 tokens, auth none, no
\* headers, no extra parameters), does not raise, and leaves the table
\* without a row.
C20_DefaultsWithoutSideEffect ==
    [][\A u \in Users :
        GetUserSettings(u) /\ settingsTable = <<>> =>
            /\ ~resolveCall'.raised
            /\ settingsTable' = <<>>
            /\ resolveCall'.result.provider_name = "unconfigured"
            /\ resolveCall'.result.api_format = "openai"
            /\ resolveCall'.result.api_endpoint = ""
            /\ resolveCall'.result.api_key = ""
            /\ resolveCall'.result.model_name = ""
            /\ resolveCall'.result.temperature = "0.7"
            /\ resolveCall'.result.max_tokens = 1000
            /\ resolveCall'.result.auth_type = "none"
            /\ resolveCall'.result.custom_headers = <<>>
            /\ resolveCall'.result.extra_params = <<>>
            /\ resolveCall.calls > 0 => resolveCall'.result = resolveCall.result]_vars

\* The third call in a row with nothing stored.
C20_Witness ==
    /\ settingsTable = <<>>
    /\ resolveCall.calls = MaxCalls
    /\ resolveCall.result.api_format = "openai"
    /\ resolveCall.result.api_endpoint = ""

\* ---------------------------------------------------------------------- C21
\* The row that a save with body s by user u leaves, given the owner the
\* row keeps.
SavedRow(owner, s) ==
    [user_id |-> owner, provider_name |-> s.provider_name,
     api_format |-> s.api_format, api_endpoint |-> s.api_endpoint,
     request_template |-> s.request_template]

\* C21: whatever update_settings calls the users make, in whatever order,
\* there is never more than one provider configuration row: the first save
\* creates it for the saving user, and every later save by any user
\* overwrites that row in place.
C21_SingleConfigurationRow ==
    [][/\ Len(settingsTable') <= 1
       /\ \A u \in Users, s \in SettingsInputs :
            UpdateSettings(u, s) =>
                settingsTable' =
                    <<SavedRow(IF settingsTable = <<>> THEN u
                               ELSE settingsTable[1].user_id, s)>>]_vars

\* The row created by u1 now holds what a later save wrote: a resolve saw
\* the ollama configuration before the anthropic one replaced it.
C21_Witness ==
    /\ Len(settingsTable) = 1
    /\ settingsTable[1].user_id = "u1"
    /\ settingsTable[1].api_format = "anthropic"
    /\ resolveCall.calls > 0
    /\ resolveCall.result.api_format = "ollama"

\* ---------------------------------------------------------------------- C22
\* C22: register creates an account only when there is no user at all;
\* whenever at least one user exists the call answers 403 and the users
\* are as before.
C22_RegistrationClosedAfterFirst ==
    [][\A username \in Usernames, email \in Emails :
        register(username, email) =>
            IF userTable.rows = {}
            THEN lastAuth'.status = 201 /\ Cardinality(userTable'.rows) = 1
            ELSE lastAuth'.status = 403 /\ userTable' = userTable]_vars

\* A register refused while one user is left of the two there were.
C22_Witness ==
    /\ lastAuth.op = "register"
    /\ lastAuth.status = 403
    /\ Cardinality(userTable.rows) = 1
    /\ userTable.next_id = 3

\* ---------------------------------------------------------------------- C23
EntriesOn(rows, u, day) == {row \in rows : row.user_id = u /\ row.recorded_at = day}

\* C23: whatever submit, update and delete calls a user makes, the user
\* never has two check-in entries on one calendar date, and a submit for a
\* date that has an entry changes that entry and adds none.
C23_OneCheckinPerDate ==
    [][/\ \A u \in Users, day \in 1..MaxDays :
            Cardinality(EntriesOn(checkinTable'.rows, u, day)) <= 1
       /\ \A u \in Users, mood \in MoodInputs \cap MOOD_LABELS_LOCAL, day \in 1..MaxDays :
            (/\ is_enabled("daily_checkin", u)
             /\ EntriesOn(checkinTable.rows, u, day) # {}
             /\ submit_checkin(u, mood, day)) =>
                /\ {row.id : row \in checkinTable'.rows} =
                      {row.id : row \in checkinTable.rows}
                /\ \A row \in EntriesOn(checkinTable'.rows, u, day) :
                      row.mood = mood]_vars

\* One user with an entry on each of two days, the earlier day entered
\* last, and no id left for a third row.
C23_Witness ==
    \E a, b \in checkinTable.rows :
        /\ a.user_id = "u2" /\ b.user_id = "u2"
        /\ a.recorded_at = 1 /\ b.recorded_at = 2
        /\ a.id > b.id
        /\ a.mood = "tired" /\ b.mood = "good"
        /\ checkinTable.next_id = 3

\* ---------------------------------------------------------------------- C24
\* C24 as claimed: whenever the custom adapter returns without raising,
\* the value it returns is a string, never an object, a list or null taken
\* from the response.
C24_ReturnsText ==
    adapterCall.stage = "response" /\ ~adapterCall.result.raised =>
        adapterCall.data[adapterCall.result.node].t = "str"

\* ---------------------------------------------------------------------- C25
InsideCooldown(u) ==
    /\ suggestionCache[u].present
    /\ clock - suggestionCache[u].last_at < COOLDOWN_MINUTES

\* The step makes no call to the provider: nothing is posted and no request
\* starts to wait.
NoUpstreamCall ==
    /\ lastSuggest'.posts = 0
    /\ upstreamLog' = upstreamLog
    /\ inflight' = inflight

\* C25: a get_suggestions attempt that fails once the conversation is found
\* leaves an empty list in the user's cache, stamped with the time the
\* attempt started; and a call of that user within 10 minutes of such a
\* stamp returns [] and makes no call to the provider, whatever the
\* provider would answer.
C25_FailureCoolsDown ==
    [][\A u \in Users :
        (lastSuggest' # lastSuggest /\ lastSuggest'.user = u) =>
            /\ (lastSuggest'.served = "computed" /\ lastSuggest'.failure # "none") =>
                  /\ lastSuggest'.at = clock
                  /\ suggestionCache'[u].present
                  /\ suggestionCache'[u].last_at = clock
                  /\ suggestionCache'[u].cached = <<>>
            /\ (InsideCooldown(u) /\ suggestionCache[u].cached = <<>>) =>
                  /\ lastSuggest'.returned = <<>>
                  /\ suggestionCache' = suggestionCache
                  /\ NoUpstreamCall]_vars

\* A call on an own conversation five minutes after the failed attempt,
\* answered with [] from the cache.
C25_Witness ==
    /\ lastSuggest.user = "u1"
    /\ lastSuggest.served = "cache"
    /\ lastSuggest.returned = <<>>
    /\ lastSuggest.conv \in OwnConversations("u1")
    /\ lastSuggest.at = suggestionCache["u1"].last_at + TickMinutes
    /\ suggestionCache["u1"].cached = <<>>

\* ---------------------------------------------------------------------- C26
\* C26: a get_suggestions call outside the cooldown, for a conversation id
\* that does not exist or belongs to another user, returns [], makes no
\* call to the provider and leaves the suggestion cache as it was.
C26_UnknownConversationLeavesCache ==
    [][\A u \in Users :
        (/\ lastSuggest' # lastSuggest
         /\ lastSuggest'.user = u
         /\ ~InsideCooldown(u)
         /\ \/ lastSuggest'.conv \notin DOMAIN conversations
            \/ conversations[lastSuggest'.conv].user_id # u) =>
            /\ lastSuggest'.returned = <<>>
            /\ lastSuggest'.raised = FALSE
            /\ suggestionCache' = suggestionCache
            /\ NoUpstreamCall]_vars

\* A call for the other user's conversation by a user whose earlier entry
\* has run out: the entry still carries its old stamp.
C26_Witness ==
    /\ lastSuggest.user \in Users
    /\ lastSuggest.served = "no_conversation"
    /\ lastSuggest.conv \in DOMAIN conversations
    /\ conversations[lastSuggest.conv].user_id # lastSuggest.user
    /\ suggestionCache[lastSuggest.user].present
    /\ lastSuggest.at - suggestionCache[lastSuggest.user].last_at >= COOLDOWN_MINUTES

NewMessages == {i \in DOMAIN messages' : i > Len(messages)}

\* Every row the step adds belongs to a conversation of user u.
AppendsOnlyFor(u) ==
    \A i \in NewMessages :
        LET c == messages'[i].conversation_id
        IN  /\ c \in DOMAIN conversations'
            /\ conversations'[c].user_id = u
            /\ c \in DOMAIN conversations => conversations[c].user_id = u

\* C28: send_message writes only to conversations of the requester.  With a
\* conversation id that does not exist or is another user's, the request
\* ends as not found and creates neither a conversation nor a message;
\* with an own id the message goes to that conversation; without an id it
\* goes to one of the requester's conversations or to a new one of theirs.
\* The reply stored when the provider answers goes to the same
\* conversation.  No step changes a conversation's owner.
C28_AppendsOnlyToOwnConversations ==
    [][/\ \A u \in Users, cid \in 0..MaxConvs :
            SendMessage(u, cid) =>
               IF cid # 0 /\ (cid \notin DOMAIN conversations
                              \/ conversations[cid].user_id # u)
               THEN /\ lastTurn'.kind = "notfound"
                    /\ conversations' = conversations
                    /\ messages' = messages
               ELSE /\ NewMessages # {}
                    /\ AppendsOnlyFor(u)
                    /\ cid # 0 => \A i \in NewMessages : messages'[i].conversation_id = cid
       /\ \A r \in Slots :
            (inflight[r].state = "awaiting" /\ inflight'[r].state = "free") =>
               /\ AppendsOnlyFor(inflight[r].user)
               /\ \A i \in NewMessages : messages'[i].conversation_id = inflight[r].conv
       /\ \A c \in DOMAIN conversations :
            /\ c \in DOMAIN conversations'
            /\ conversations'[c].user_id = conversations[c].user_id
       /\ \A i \in DOMAIN messages :
            /\ i \in DOMAIN messages'
            /\ messages'[i].conversation_id = messages[i].conversation_id]_vars

\* u2 asked for u1's conversation and was refused, and later wrote without
\* an id: every message sits in a conversation, and u2's conversation holds
\* a message while u1's conversation exists next to it.
C28_Witness ==
    /\ lastSel.user = "u2"
    /\ lastSel.reused
    /\ conversations[lastSel.conv].user_id = "u2"
    /\ \E c \in DOMAIN conversations :
          /\ conversations[c].user_id = "u1"
          /\ conversations[c].updated_at >= conversations[lastSel.conv].updated_at - TickMinutes
          /\ \E i \in DOMAIN messages : messages[i].conversation_id = c

\* A request for another user's conversation that ended as not found.
C28_WitnessRefused ==
    /\ lastTurn.kind = "notfound"
    /\ lastTurn.user = "u2"
    /\ \E c \in DOMAIN conversations : conversations[c].user_id = "u1"
    /\ \A c \in DOMAIN conversations : conversations[c].user_id = "u1"

\* ---------------------------------------------------------------------- C29
\* C29: every message send_message stores has the role user or assistant,
\* and the list it hands to the dispatcher holds at most one system
\* message, which is then the first one and is there exactly when the
\* plugin context is not empty.
C29_RolesStoredAndSent ==
    /\ \A i \in DOMAIN messages : messages[i].role \in {"user", "assistant"}
    /\ lastPrompt.user # "none" =>
          LET roles == lastPrompt.roles
          IN  /\ roles # <<>>
              /\ Cardinality({i \in DOMAIN roles : roles[i] = "system"}) <= 1
              /\ \A i \in DOMAIN roles : roles[i] = "system" => i = 1
              /\ roles[1] = "system" <=> lastPrompt.context # <<>>

\* A turn in a conversation that already holds a reply, with a plugin
\* contributing context: the list starts with the system message and
\* goes on with the stored user and assistant messages.
C29_Witness ==
    /\ lastPrompt.user = "u1"
    /\ lastPrompt.context # <<>>
    /\ Len(lastPrompt.roles) >= 4
    /\ lastPrompt.roles[1] = "system"
    /\ lastPrompt.roles[2] = "user"
    /\ lastPrompt.roles[3] = "assistant"
    /\ \E i \in DOMAIN messages : messages[i].role = "assistant"

\* ---------------------------------------------------------------------- C30
\* What the switch of plugin p reads for user u from the rows.
EnabledIn(rows, p, u) == IF rows[u][p] = "none" THEN TRUE ELSE rows[u][p] = "on"

\* The value a toggle_plugin request writes.
Written(p, u, data) ==
    IF data = "true" THEN TRUE
    ELSE IF data = "false" THEN FALSE
    ELSE ~is_enabled(p, u)

\* C30: is_enabled(plugin, user) is true while no call was made for the
\* pair; a set_enabled / toggle_plugin call makes it the value the call
\* writes, and leaves it unchanged for every other plugin and every other
\* user.
C30_LastWriteWins ==
    [][\A p \in Plugins, u \in Users, data \in ToggleInputs :
          toggle_plugin(p, u, data) =>
             /\ is_enabled(p, u) = EnabledIn(userPlugins, p, u)
             /\ userPlugins[u][p] = "none" => is_enabled(p, u)
             /\ EnabledIn(userPlugins', p, u) = Written(p, u, data)
             /\ userPlugins'[u][p] # "none"
             /\ \A q \in Plugins, v \in Users :
                   (q # p \/ v # u) => userPlugins'[v][q] = userPlugins[v][q]]_vars

\* u1 switched a plugin off and on again, u2 switched the same plugin off,
\* and a plugin nobody touched is still enabled for both.
C30_Witness ==
    /\ userPlugins["u1"][Registry[1]] = "on"
    /\ userPlugins["u2"][Registry[1]] = "off"
    /\ is_enabled(Registry[1], "u1")
    /\ ~is_enabled(Registry[1], "u2")
    /\ userPlugins["u1"][Registry[2]] = "none"
    /\ is_enabled(Registry[2], "u1")

====
